---- MODULE Spec2Model ----
(***************************************************************************)
(* Model of src/src/server.js: the Express handlers of the NEXUS APEX MCP  *)
(* server over its SQLite tables.                                          *)
(*                                                                         *)
(* Conventions                                                             *)
(*  - A JavaScript value is a record [t, v]: t is its typeof, v its source *)
(*    text (a string literal's characters, a number's digits).             *)
(*  - Instants are integers in milliseconds since the epoch (UTC).         *)
(*  - A SQLite datetime("now") text "YYYY-MM-DD HH:MM:SS" is the integer   *)
(*    count of whole UTC seconds it denotes.                               *)
(*  - A progress value is an integer count of hundredths of a percent:     *)
(*    what parseFloat(x.toFixed(2)) keeps of x (10000 is 100.00).          *)
(***************************************************************************)
EXTENDS Integers, Sequences, FiniteSets, TLC

VARIABLES
    now,                  \* the system clock, ms since the epoch (UTC)
    tz,                   \* the process's local-time offset from UTC, ms
    nextId,               \* how many identifiers uuidv4() has produced, plus 1
    lora_trainings,       \* the rows of each table, in insertion (rowid) order
    json_configs,
    image_scores,
    anatomy_validations,
    remotion_deployments,
    statsPc,              \* position of the GET /api/stats handler (0: idle)
    statsAcc,             \* the counts that handler has read so far
    req,                  \* the request answered last
    resp,                 \* the response sent last
    created,              \* per creation route, the ids returned with a 200
    nSuccess              \* per creation route, how many requests got a 200

tables == <<lora_trainings, json_configs, image_scores, anatomy_validations,
            remotion_deployments>>

vars == <<now, tz, nextId, lora_trainings, json_configs, image_scores,
          anatomy_validations, remotion_deployments, statsPc, statsAcc,
          req, resp, created, nSuccess>>

(***************************************************************************)
(* Bounds of the model.                                                    *)
(***************************************************************************)
MaxIds == 2           \* creation requests that reach uuidv4(), per behaviour
MaxMinutes == 3       \* how far the clock runs, in minutes
MaxScoreRows == 11    \* image_scores rows in SpecScores
RandomGrid == 20      \* Math.random() yields k / RandomGrid, k in 0..RandomGrid-1

(***************************************************************************)
(* Program constants.                                                      *)
(***************************************************************************)
TrainingDurationMs == 120000
DeploymentDurationMs == 180000
ScoresLimit == 10

(***************************************************************************)
(* JavaScript values.                                                      *)
(***************************************************************************)
Undefined == [t |-> "undefined", v |-> ""]
JsStr(s) == [t |-> "string", v |-> s]
JsNum(lit) == [t |-> "number", v |-> lit]

\* ToBoolean: what `!x` and `x || d` test.
Truthy(x) ==
    CASE x.t = "undefined" -> FALSE
      [] x.t = "string" -> x.v # ""
      [] x.t = "number" -> x.v # "0"
      [] OTHER -> TRUE

\* Falsy with undefined let through: a check that tests only for "".
FalsyEmptyOnly(x) == x.t = "string" /\ x.v = ""

\* `!x`
Falsy(x) == ~Truthy(x)

\* A destructuring default `{ f = d } = req.body`: only undefined takes it.
ParamDefault(x, d) == IF x = Undefined THEN d ELSE x

\* `x || d`
OrDefault(x, d) == IF Truthy(x) THEN x ELSE d

\* String.prototype.toLowerCase on the names the requests carry.
ToLowerCase(s) ==
    CASE s = "Ana" -> "ana"
      [] OTHER -> s

(***************************************************************************)
(* Identifiers, the clock and the store.                                   *)
(***************************************************************************)
Uuids == <<"u01", "u02", "u03", "u04", "u05", "u06", "u07", "u08",
           "u09", "u10", "u11", "u12", "u13", "u14", "u15", "u16">>

\* uuidv4(): the n-th identifier produced; every call yields a fresh one.
uuidv4(n) == Uuids[n]

\* An identifier no call of uuidv4() produces.
UnknownId == "none"

\* SQLite datetime("now"): the UTC wall clock cut to whole seconds.
DatetimeNow(t) == t \div 1000

\* new Date(text) on "YYYY-MM-DD HH:MM:SS": no zone designator, so the text
\* is read as local time.
NewDate(text, offset) == text * 1000 - offset

\* A value bound to a column of TEXT affinity, as it is read back: a number
\* is converted to its text form, so what is read back is a string.
SqlText(x) == IF x.t = "number" THEN JsStr(x.v) ELSE x

\* SELECT * FROM table WHERE id = ?: the matching rows (none or one).
SelectById(table, id) == { i \in 1..Len(table) : table[i].id = id }

\* The PRIMARY KEY constraint: an INSERT of a present id fails.
HasId(table, id) == SelectById(table, id) # {}

(***************************************************************************)
(* Progress.                                                               *)
(***************************************************************************)
\* a / b rounded to the nearest integer, halves away from zero (toFixed).
RoundDiv(a, b) ==
    IF a >= 0 THEN (2 * a + b) \div (2 * b)
    ELSE -((2 * (-a) + b) \div (2 * b))

\* Progress that starts over once the duration has passed.
ProgressWrapping(elapsed, duration) ==
    RoundDiv(elapsed % duration, duration \div 10000)

\* parseFloat(Math.min(100, (elapsed / duration) * 100).toFixed(2)),
\* in hundredths of a percent: elapsed * 10000 / duration, computed as
\* elapsed / (duration / 10000) to stay within TLC's integers (both
\* durations are multiples of 10000).
Progress(elapsed, duration) ==
    IF elapsed >= duration THEN 10000
    ELSE RoundDiv(elapsed, duration \div 10000)

(***************************************************************************)
(* Responses.                                                              *)
(***************************************************************************)
Error(status, message) == [status |-> status, body |-> [error |-> message]]
Ok(body) == [status |-> 200, body |-> body]

CreationRoutes == {"train-lora", "generate-json", "score-image",
                   "validate-anatomy", "deploy-remotion"}

\* Bookkeeping of a creation request's outcome.
Record(route, id, answer) ==
    IF answer.status = 200
    THEN /\ created' = [created EXCEPT ![route] = @ \cup {id}]
         /\ nSuccess' = [nSuccess EXCEPT ![route] = @ + 1]
    ELSE UNCHANGED <<created, nSuccess>>


(***************************************************************************)
(* POST /api/train-lora                                                    *)
(***************************************************************************)
TrainLora(body, dbOk) ==
    LET characterName == body.characterName
        baseModel == ParamDefault(body.baseModel, JsStr("FLUX.1-Pro-Ultra"))
        strength == ParamDefault(body.strength, JsNum("0.85"))
        epochs == ParamDefault(body.epochs, JsNum("100"))
        jobId == uuidv4(nextId)
        row == [id |-> jobId, characterName |-> SqlText(characterName),
                status |-> "training", progress |-> 0, strength |-> strength,
                epochs |-> epochs, createdAt |-> DatetimeNow(now)]
        inserted == dbOk /\ ~HasId(lora_trainings, jobId)
        answer ==
            IF Falsy(characterName) THEN Error(400, "characterName is required")
            ELSE IF ~inserted THEN Error(500, "SQLITE_ERROR")
            ELSE IF characterName.t # "string"
                 THEN Error(500, "characterName.toLowerCase is not a function")
            ELSE Ok([jobId |-> jobId, status |-> "training", progress |-> 0,
                     characterName |-> characterName, baseModel |-> baseModel,
                     strength |-> strength, epochs |-> epochs,
                     modelPath |-> <<"/models/", ToLowerCase(characterName.v),
                                     "_lora_v1.safetensors">>,
                     eta |-> "2-3 minutes",
                     message |-> <<"LoRA training started for ",
                                   characterName.v>>])
    IN  /\ req' = [route |-> "POST /api/train-lora", body |-> body]
        /\ resp' = answer
        /\ IF Falsy(characterName)
           THEN UNCHANGED <<nextId, lora_trainings>>
           ELSE /\ nextId' = nextId + 1
                /\ lora_trainings' = IF inserted THEN Append(lora_trainings, row)
                                     ELSE lora_trainings
        /\ Record("train-lora", jobId, answer)
        /\ UNCHANGED <<now, tz, json_configs, image_scores, anatomy_validations,
                       remotion_deployments, statsPc, statsAcc>>

(***************************************************************************)
(* GET /api/train-lora/:jobId and GET /api/deploy-remotion/:jobId          *)
(***************************************************************************)
\* The two poll handlers differ in the table, the message and the duration.
Poll(route, table, duration, message, jobId, dbOk) ==
    LET found == SelectById(table, jobId)
        job == table[CHOOSE i \in found : TRUE]
        elapsed == now - NewDate(job.createdAt, tz)
        progress == Progress(elapsed, duration)
    IN  /\ req' = [route |-> route, jobId |-> jobId, at |-> now]
        /\ resp' = IF ~dbOk THEN Error(500, "SQLITE_ERROR")
                   ELSE IF found = {} THEN Error(404, message)
                   ELSE Ok([job EXCEPT !.progress = progress])
        /\ UNCHANGED <<now, tz, nextId, tables, statsPc, statsAcc, created,
                       nSuccess>>

\* A poll that stores the status "completed" once progress is 100.
GetTrainLoraCompleting(jobId, dbOk) ==
    LET found == SelectById(lora_trainings, jobId)
        i == CHOOSE j \in found : TRUE
        done == /\ dbOk /\ found # {}
                /\ now - NewDate(lora_trainings[i].createdAt, tz)
                       >= TrainingDurationMs
        stored == IF done
                  THEN [lora_trainings EXCEPT ![i].status = "completed"]
                  ELSE lora_trainings
        job == stored[i]
    IN  /\ req' = [route |-> "GET /api/train-lora/:jobId", jobId |-> jobId,
                   at |-> now]
        /\ resp' = IF ~dbOk THEN Error(500, "SQLITE_ERROR")
                   ELSE IF found = {} THEN Error(404, "Training not found")
                   ELSE Ok([job EXCEPT !.progress =
                               Progress(now - NewDate(job.createdAt, tz),
                                        TrainingDurationMs)])
        /\ lora_trainings' = stored
        /\ UNCHANGED <<now, tz, nextId, json_configs, image_scores,
                       anatomy_validations, remotion_deployments, statsPc,
                       statsAcc, created, nSuccess>>

GetTrainLora(jobId, dbOk) ==
    Poll("GET /api/train-lora/:jobId", lora_trainings, TrainingDurationMs,
         "Training not found", jobId, dbOk)

GetDeployRemotion(jobId, dbOk) ==
    Poll("GET /api/deploy-remotion/:jobId", remotion_deployments,
         DeploymentDurationMs, "Deployment not found", jobId, dbOk)

(***************************************************************************)
(* POST /api/generate-json                                                 *)
(***************************************************************************)
\* JSON.stringify of an object whose values are strings and numbers: per key,
\* the literal written (a quoted string or a bare number).
JSONstringify(obj) ==
    [k \in DOMAIN obj |->
        IF obj[k].t = "string" THEN [literal |-> "quoted", text |-> obj[k].v]
        ELSE [literal |-> "bare", text |-> obj[k].v]]

\* JSON.parse of such a text.
JSONparse(text) ==
    [k \in DOMAIN text |->
        IF text[k].literal = "quoted" THEN JsStr(text[k].text)
        ELSE JsNum(text[k].text)]

GenerateJson(body, dbOk) ==
    LET character == body.character
        environment == body.environment
        lighting == body.lighting
        camera == body.camera
        style == body.style
        negativePrompt == body.negativePrompt
        invalid == Falsy(character) \/ Falsy(environment) \/ Falsy(lighting)
        configId == uuidv4(nextId)
        jsonConfig ==
            [character |-> character, environment |-> environment,
             lighting |-> lighting,
             camera |-> OrDefault(camera, JsStr("Standard")),
             style |-> OrDefault(style, JsStr("Cinematic")),
             negativePrompt |->
                 OrDefault(negativePrompt, JsStr("deformed, blurry, low quality"))]
        row == [id |-> configId,
                character |-> SqlText(character),
                environment |-> SqlText(environment),
                lighting |-> SqlText(lighting),
                camera |-> SqlText(OrDefault(camera, JsStr("Standard"))),
                style |-> SqlText(OrDefault(style, JsStr("Cinematic"))),
                negativePrompt |-> SqlText(OrDefault(negativePrompt,
                                       JsStr("deformed, blurry, low quality"))),
                configJson |-> JSONstringify(jsonConfig),
                createdAt |-> DatetimeNow(now)]
        inserted == dbOk /\ ~HasId(json_configs, configId)
        answer ==
            IF invalid
            THEN Error(400, "character, environment, and lighting are required")
            ELSE IF ~inserted THEN Error(500, "SQLITE_ERROR")
            ELSE Ok([id |-> configId, jsonConfig |-> jsonConfig,
                     createdAt |-> now,
                     message |-> "JSON Config generated successfully"])
    IN  /\ req' = [route |-> "POST /api/generate-json", body |-> body]
        /\ resp' = answer
        /\ IF invalid
           THEN UNCHANGED <<nextId, json_configs>>
           ELSE /\ nextId' = nextId + 1
                /\ json_configs' = IF inserted THEN Append(json_configs, row)
                                   ELSE json_configs
        /\ Record("generate-json", configId, answer)
        /\ UNCHANGED <<now, tz, lora_trainings, image_scores,
                       anatomy_validations, remotion_deployments, statsPc,
                       statsAcc>>

(***************************************************************************)
(* POST /api/score-image and GET /api/scores                               *)
(***************************************************************************)
\* Math.random(): k / RandomGrid for a k of Draws.
Draws == 0..(RandomGrid - 1)

\* Math.round(Math.random() * span + base) for the draw k / RandomGrid.
RandomScore(k, span, base) == base + (2 * k * span + RandomGrid) \div (2 * RandomGrid)

\* Math.round(sum / n)
RoundedMean(sum, n) == (2 * sum + n) \div (2 * n)

Quality(total) ==
    IF total >= 85 THEN "Excellent"
    ELSE IF total >= 75 THEN "Good"
    ELSE IF total >= 60 THEN "Fair"
    ELSE "Weak"

Feedback(total) ==
    IF total >= 85 THEN "Masterpiece level! All dimensions are outstanding."
    ELSE IF total >= 75 THEN "Consider: enhance saliency, add depth, improve drama"
    ELSE IF total >= 60 THEN "Work on composition, lighting, and focus"
    ELSE "Major improvements needed in multiple areas"

ScoreImage(body, k, dbOk) ==
    LET imageUrl == body.imageUrl
        scoreId == uuidv4(nextId)
        drama == RandomScore(k[1], 30, 60)
        saliency == RandomScore(k[2], 30, 65)
        emotion == RandomScore(k[3], 30, 60)
        depth == RandomScore(k[4], 30, 70)
        signature == RandomScore(k[5], 30, 65)
        total == RoundedMean(drama + saliency + emotion + depth + signature, 5)
        row == [id |-> scoreId, imageUrl |-> SqlText(imageUrl), drama |-> drama,
                saliency |-> saliency, emotion |-> emotion, depth |-> depth,
                signature |-> signature, total |-> total,
                feedback |-> Feedback(total), createdAt |-> DatetimeNow(now)]
        inserted == dbOk /\ ~HasId(image_scores, scoreId)
        answer ==
            IF Falsy(imageUrl) THEN Error(400, "imageUrl is required")
            ELSE IF ~inserted THEN Error(500, "SQLITE_ERROR")
            ELSE Ok([id |-> scoreId, imageUrl |-> imageUrl, drama |-> drama,
                     saliency |-> saliency, emotion |-> emotion,
                     depth |-> depth, signature |-> signature, total |-> total,
                     quality |-> Quality(total), feedback |-> Feedback(total),
                     suggestions |-> <<"Increase contrast for more drama",
                                       "Add focal point for better saliency",
                                       "Layer composition for depth">>,
                     message |-> <<"Image scored: ", total, "/100 (",
                                   Quality(total), ")">>])
    IN  /\ req' = [route |-> "POST /api/score-image", body |-> body]
        /\ resp' = answer
        /\ IF Falsy(imageUrl)
           THEN UNCHANGED <<nextId, image_scores>>
           ELSE /\ nextId' = nextId + 1
                /\ image_scores' = IF inserted THEN Append(image_scores, row)
                                   ELSE image_scores
        /\ Record("score-image", scoreId, answer)
        /\ UNCHANGED <<now, tz, lora_trainings, json_configs,
                       anatomy_validations, remotion_deployments, statsPc,
                       statsAcc>>

\* Min(a, b)
Min(a, b) == IF a <= b THEN a ELSE b

\* ORDER BY createdAt DESC LIMIT n: the row sets the statement may return.
\* Rows of one createdAt come in an order SQL leaves open, so any of them
\* may be the ones the limit cuts.
OrderByCreatedAtDescLimit(table, n) ==
    IF Len(table) <= n THEN {1..Len(table)}
    ELSE { S \in SUBSET (1..Len(table)) :
             /\ Cardinality(S) = Min(n, Len(table))
             /\ \A i \in S, j \in (1..Len(table)) \ S :
                   table[i].createdAt >= table[j].createdAt }

\* The response's scores array is the set of rows it holds (it lists them by
\* createdAt, latest first).
GetScores(dbOk) ==
    /\ \E S \in OrderByCreatedAtDescLimit(image_scores, ScoresLimit) :
          LET scores == { image_scores[i] : i \in S }
          IN  resp' = IF ~dbOk THEN Error(500, "SQLITE_ERROR")
                      ELSE Ok([scores |-> scores, total |-> Cardinality(scores)])
    /\ req' = [route |-> "GET /api/scores"]
    /\ UNCHANGED <<now, tz, nextId, tables, statsPc, statsAcc, created, nSuccess>>

(***************************************************************************)
(* POST /api/validate-anatomy                                              *)
(***************************************************************************)
HandsScore(k) == RandomScore(k, 10, 85)
FaceScore(k) == RandomScore(k, 10, 88)
\* The body score drawn from 80..90.
BodyScoreLow(k) == RandomScore(k, 10, 80)

BodyScore(k) == RandomScore(k, 10, 82)

ValidateAnatomy(body, k, dbOk) ==
    LET imageUrl == body.imageUrl
        validationId == uuidv4(nextId)
        handsScore == HandsScore(k[1])
        faceScore == FaceScore(k[2])
        bodyScore == BodyScore(k[3])
        overallScore == RoundedMean(handsScore + faceScore + bodyScore, 3)
        verdict == IF overallScore >= 90 THEN "Excellent anatomy!"
                   ELSE "Good anatomy. Minor adjustments possible."
        issues == IF overallScore < 85
                  THEN <<"Consider hand pose", "Adjust shoulder width">>
                  ELSE <<>>
        row == [id |-> validationId, imageUrl |-> SqlText(imageUrl),
                handsScore |-> handsScore, faceScore |-> faceScore,
                bodyScore |-> bodyScore, overallScore |-> overallScore,
                issues |-> issues, createdAt |-> DatetimeNow(now)]
        inserted == dbOk /\ ~HasId(anatomy_validations, validationId)
        answer ==
            IF Falsy(imageUrl) THEN Error(400, "imageUrl is required")
            ELSE IF ~inserted THEN Error(500, "SQLITE_ERROR")
            ELSE Ok([id |-> validationId, imageUrl |-> imageUrl,
                     hands |-> [detected |-> TRUE, quality |-> handsScore,
                                issues |-> IF handsScore < 90
                                           THEN <<"Finger positioning">>
                                           ELSE <<>>,
                                status |-> IF handsScore >= 90 THEN "Perfect"
                                           ELSE "Good"],
                     face |-> [detected |-> TRUE, symmetry |-> faceScore,
                               proportions |-> "Correct",
                               status |-> IF faceScore >= 90 THEN "Symmetric"
                                          ELSE "Acceptable"],
                     body |-> [detected |-> TRUE, posture |-> "Natural",
                               proportions |-> "Proportional",
                               status |-> IF bodyScore >= 90 THEN "Perfect"
                                          ELSE "Good"],
                     overallScore |-> overallScore, verdict |-> verdict,
                     message |-> <<"Validation complete: ", overallScore,
                                   "/100">>])
    IN  /\ req' = [route |-> "POST /api/validate-anatomy", body |-> body]
        /\ resp' = answer
        /\ IF Falsy(imageUrl)
           THEN UNCHANGED <<nextId, anatomy_validations>>
           ELSE /\ nextId' = nextId + 1
                /\ anatomy_validations' =
                       IF inserted THEN Append(anatomy_validations, row)
                       ELSE anatomy_validations
        /\ Record("validate-anatomy", validationId, answer)
        /\ UNCHANGED <<now, tz, lora_trainings, json_configs, image_scores,
                       remotion_deployments, statsPc, statsAcc>>

(***************************************************************************)
(* POST /api/deploy-remotion                                               *)
(***************************************************************************)
\* An object whose id property is the string s.
JsObj(s) == [t |-> "object", v |-> s]

\* `x?.id`
OptionalId(x) == IF x.t = "object" THEN JsStr(x.v) ELSE Undefined

\* NULL, as a column no INSERT names is read back.
Null == [t |-> "null", v |-> ""]

DeployRemotion(body, dbOk) ==
    LET jsonConfig == body.jsonConfig
        duration == ParamDefault(body.duration, JsNum("15"))
        effects == ParamDefault(body.effects, JsStr("None"))
        jobId == uuidv4(nextId)
        givenId == OptionalId(jsonConfig)
        configId == OrDefault(givenId, JsStr(uuidv4(nextId + 1)))
        row == [id |-> jobId, configId |-> SqlText(configId),
                status |-> "deploying", progress |-> 0, vercelUrl |-> Null,
                videoPath |-> Null, duration |-> duration,
                effects |-> SqlText(effects), createdAt |-> DatetimeNow(now)]
        inserted == dbOk /\ ~HasId(remotion_deployments, jobId)
        answer ==
            IF Falsy(duration) THEN Error(400, "duration is required")
            ELSE IF ~inserted THEN Error(500, "SQLITE_ERROR")
            ELSE Ok([jobId |-> jobId, status |-> "deploying", progress |-> 0,
                     duration |-> duration, effects |-> effects,
                     vercelUrl |-> <<"https://nexus-apex-video-", jobId,
                                     ".vercel.app">>,
                     videoPath |-> <<"/videos/output_", jobId, ".mp4">>,
                     eta |-> "3-5 minutes",
                     message |-> "Remotion video deployment started"])
    IN  /\ req' = [route |-> "POST /api/deploy-remotion", body |-> body]
        /\ resp' = answer
        /\ IF Falsy(duration)
           THEN UNCHANGED <<nextId, remotion_deployments>>
           ELSE /\ nextId' = IF Truthy(givenId) THEN nextId + 1 ELSE nextId + 2
                /\ remotion_deployments' =
                       IF inserted THEN Append(remotion_deployments, row)
                       ELSE remotion_deployments
        /\ Record("deploy-remotion", jobId, answer)
        /\ UNCHANGED <<now, tz, lora_trainings, json_configs, image_scores,
                       anatomy_validations, statsPc, statsAcc>>

(***************************************************************************)
(* GET /api/stats: four statements, each awaited before the next is sent,  *)
(* so other requests are handled between them.                             *)
(***************************************************************************)
\* SELECT COUNT(*) as count FROM table, then `row?.count || 0`.
Count(table) == Len(table)

\* The handler's step at position pc, reading table.
StatsStep(pc, table, dbOk) ==
    /\ statsPc = pc
    /\ IF ~dbOk
       THEN /\ req' = [route |-> "GET /api/stats"]
            /\ resp' = Error(500, "SQLITE_ERROR")
            /\ statsPc' = 0
            /\ statsAcc' = <<>>
       ELSE IF pc < 3
       THEN /\ statsPc' = pc + 1
            /\ statsAcc' = Append(statsAcc, Count(table))
            /\ UNCHANGED <<req, resp>>
       ELSE /\ req' = [route |-> "GET /api/stats"]
            /\ resp' = Ok([loraTrainings |-> statsAcc[1],
                           jsonConfigs |-> statsAcc[2],
                           imageScores |-> statsAcc[3],
                           remotionDeployments |-> Count(table)])
            /\ statsPc' = 0
            /\ statsAcc' = <<>>
    /\ UNCHANGED <<now, tz, nextId, tables, created, nSuccess>>

StatsLora(dbOk) == StatsStep(0, lora_trainings, dbOk)
StatsConfigs(dbOk) == StatsStep(1, json_configs, dbOk)
StatsScores(dbOk) == StatsStep(2, image_scores, dbOk)
StatsDeployments(dbOk) == StatsStep(3, remotion_deployments, dbOk)

(***************************************************************************)
(* The clock.                                                              *)
(***************************************************************************)
Tick(d) ==
    /\ now + d <= MaxMinutes * 60000 + 999
    /\ now' = now + d
    /\ UNCHANGED <<tz, nextId, tables, statsPc, statsAcc, req, resp, created,
                   nSuccess>>

(***************************************************************************)
(* Inputs.                                                                 *)
(***************************************************************************)
\* Local-time offsets: an hour west of UTC, UTC, an hour east.
TzOffsets == {-3600000, 0, 3600000}

\* The clock's steps: a step that leaves a training job and a deployment job
\* under way, and one that takes both past their expected durations.
TickSteps == {90400}
LongTickSteps == {180400}

\* Request bodies: every way a required field is absent or falsy, a string
\* and a number for a text field, and each optional field absent and given.
TrainBodies ==
    [characterName : {Undefined, JsStr(""), JsStr("Ana"), JsNum("42")},
     baseModel : {Undefined}, strength : {Undefined, JsNum("0.5")},
     epochs : {Undefined}]

JsonBodies ==
    [character : {Undefined, JsStr("hero"), JsNum("42")},
     environment : {Undefined, JsStr("forest")},
     lighting : {Undefined, JsStr("dusk")},
     camera : {Undefined, JsStr("Wide")},
     style : {Undefined, JsStr("")},
     negativePrompt : {Undefined}]

ImageBodies == [imageUrl : {Undefined, JsStr(""), JsStr("http://img")}]

DeployBodies ==
    [jsonConfig : {Undefined, JsObj("cfg")},
     duration : {Undefined, JsNum("0"), JsNum("30")},
     effects : {Undefined, JsStr("Glow")}]

\* The bodies of the whole-server specification: per route, one that lacks a
\* required field and the ones that reach each outcome of the handler.
FewTrainBodies == { b \in TrainBodies : b.characterName # JsStr("") /\ b.strength = Undefined }

FewJsonBodies ==
    { b \in JsonBodies : /\ b.character # JsNum("42")
                         /\ b.environment # Undefined /\ b.lighting # Undefined
                         /\ b.camera = Undefined /\ b.style = Undefined }

FewImageBodies == { b \in ImageBodies : b.imageUrl # JsStr("") }

FewDeployBodies ==
    { b \in DeployBodies : /\ b.jsonConfig # Undefined /\ b.effects = Undefined
                           /\ b.duration # JsNum("30") }

\* The lowest and the highest draw.
EndDraws == {0, RandomGrid - 1}

\* The ids a poll may name: every id produced so far, and one never produced.
KnownIds == { uuidv4(n) : n \in 1..(nextId - 1) } \cup {UnknownId}

(***************************************************************************)
(* Specifications.                                                         *)
(***************************************************************************)
InitStore ==
    /\ now = 0
    /\ nextId = 1
    /\ lora_trainings = <<>>
    /\ json_configs = <<>>
    /\ image_scores = <<>>
    /\ anatomy_validations = <<>>
    /\ remotion_deployments = <<>>
    /\ statsPc = 0
    /\ statsAcc = <<>>
    /\ req = [route |-> "none"]
    /\ resp = [status |-> 0]
    /\ created = [r \in CreationRoutes |-> {}]
    /\ nSuccess = [r \in CreationRoutes |-> 0]

\* The whole server, in a process whose local time is UTC. While a
\* GET /api/stats is between two of its statements, only creation requests
\* are interleaved with it: the other handlers write nothing it reads and
\* read nothing it writes.
Init == InitStore /\ tz = 0

Next ==
    \/ statsPc = 0 /\ \E d \in LongTickSteps : Tick(d)
    \/ nextId <= MaxIds /\ \E body \in FewTrainBodies, dbOk \in BOOLEAN :
          TrainLora(body, dbOk)
    \/ nextId <= MaxIds /\ \E body \in FewJsonBodies, dbOk \in BOOLEAN :
          GenerateJson(body, dbOk)
    \/ nextId <= MaxIds /\ \E body \in FewImageBodies, dbOk \in BOOLEAN :
          ScoreImage(body, <<0, 0, 0, 0, 0>>, dbOk)
    \/ nextId <= MaxIds /\ \E body \in FewImageBodies, dbOk \in BOOLEAN :
          ValidateAnatomy(body, <<0, 0, 0>>, dbOk)
    \/ nextId <= MaxIds /\ \E body \in FewDeployBodies, dbOk \in BOOLEAN :
          DeployRemotion(body, dbOk)
    \/ statsPc = 0 /\ \E jobId \in KnownIds, dbOk \in BOOLEAN :
          GetTrainLora(jobId, dbOk)
    \/ statsPc = 0 /\ \E jobId \in KnownIds, dbOk \in BOOLEAN :
          GetDeployRemotion(jobId, dbOk)
    \/ statsPc = 0 /\ \E dbOk \in BOOLEAN : GetScores(dbOk)
    \/ \E dbOk \in BOOLEAN : StatsLora(dbOk)
    \/ \E dbOk \in BOOLEAN : StatsConfigs(dbOk)
    \/ \E dbOk \in BOOLEAN : StatsScores(dbOk)
    \/ \E dbOk \in BOOLEAN : StatsDeployments(dbOk)

Spec == Init /\ [][Next]_vars

\* The two job routes and their polls, in every time zone of TzOffsets.
InitJobs == InitStore /\ tz \in TzOffsets

NextJobs ==
    \/ \E d \in TickSteps : Tick(d)
    \/ nextId <= MaxIds /\ \E body \in FewTrainBodies, dbOk \in BOOLEAN :
          TrainLora(body, dbOk)
    \/ nextId <= MaxIds /\ \E body \in FewDeployBodies, dbOk \in BOOLEAN :
          DeployRemotion(body, dbOk)
    \/ \E jobId \in KnownIds, dbOk \in BOOLEAN : GetTrainLora(jobId, dbOk)
    \/ \E jobId \in KnownIds, dbOk \in BOOLEAN : GetDeployRemotion(jobId, dbOk)

SpecJobs == InitJobs /\ [][NextJobs]_vars

\* The five creation routes, over every request body.
NextCreate ==
    \/ nextId <= MaxIds /\ \E body \in TrainBodies, dbOk \in BOOLEAN :
          TrainLora(body, dbOk)
    \/ nextId <= MaxIds /\ \E body \in JsonBodies, dbOk \in BOOLEAN :
          GenerateJson(body, dbOk)
    \/ nextId <= MaxIds /\ \E body \in ImageBodies, k \in EndDraws,
                              dbOk \in BOOLEAN :
          ScoreImage(body, <<k, k, k, k, k>>, dbOk)
    \/ nextId <= MaxIds /\ \E body \in ImageBodies, k \in EndDraws,
                              dbOk \in BOOLEAN :
          ValidateAnatomy(body, <<k, k, k>>, dbOk)
    \/ nextId <= MaxIds /\ \E body \in DeployBodies, dbOk \in BOOLEAN :
          DeployRemotion(body, dbOk)

SpecCreate == Init /\ [][NextCreate]_vars

\* The score routes, up to MaxScoreRows rows.
NextScores ==
    \/ \E d \in LongTickSteps : Tick(d)
    \/ nextId <= MaxScoreRows /\ \E body \in FewImageBodies, dbOk \in BOOLEAN :
          ScoreImage(body, <<0, 0, 0, 0, 0>>, dbOk)
    \/ \E dbOk \in BOOLEAN : GetScores(dbOk)

SpecScores == Init /\ [][NextScores]_vars

\* One validation request on the empty store, over every draw.
NextAnatomy ==
    /\ nextId = 1
    /\ \E body \in ImageBodies, k \in Draws \X Draws \X Draws, dbOk \in BOOLEAN :
          ValidateAnatomy(body, k, dbOk)

SpecAnatomy == Init /\ [][NextAnatomy]_vars

(***************************************************************************)
(* Properties.                                                             *)
(***************************************************************************)
PollRoutes == {"GET /api/train-lora/:jobId", "GET /api/deploy-remotion/:jobId"}

\* The request q was a poll and r answered it with a job.
IsPoll200(q, r) == q.route \in PollRoutes /\ r.status = 200

\* The poll route's expected duration.
DurationOf(route) ==
    IF route = "GET /api/train-lora/:jobId" THEN TrainingDurationMs
    ELSE DeploymentDurationMs

\* clamp(0, 100, (elapsed / duration) * 100), in hundredths of a percent.
Clamped(elapsed, duration) ==
    IF elapsed <= 0 THEN 0
    ELSE IF elapsed >= duration THEN 10000
    ELSE RoundDiv(elapsed, duration \div 10000)

\* r is an error response: {error} and nothing else.
IsError(r, status) == r.status = status /\ DOMAIN r.body = {"error"}

\* C1: every poll of an existing job returns
\* clamp(0, 100, (now - createdAt) / expectedDuration * 100), whatever the
\* clock reading and the stored createdAt: never below 0, never above 100.
C1_ProgressIsClamped ==
    IsPoll200(req, resp) =>
        /\ resp.body.progress >= 0
        /\ resp.body.progress <= 10000
        /\ resp.body.progress =
               Clamped(req.at - NewDate(resp.body.createdAt, tz),
                       DurationOf(req.route))

\* C2: a POST /api/deploy-remotion whose body has no duration field is
\* answered 400 with an {error} body and inserts no row.
C2_DeployWithoutDurationRejected ==
    [][(/\ req'.route = "POST /api/deploy-remotion"
        /\ req'.body.duration = Undefined)
          => /\ IsError(resp', 400)
             /\ remotion_deployments' = remotion_deployments]_vars

\* The request q lacks a field its route requires (train-lora,
\* generate-json, score-image, validate-anatomy).
MissingRequired(q) ==
    \/ /\ q.route = "POST /api/train-lora"
       /\ q.body.characterName = Undefined
    \/ /\ q.route = "POST /api/generate-json"
       /\ \/ q.body.character = Undefined
          \/ q.body.environment = Undefined
          \/ q.body.lighting = Undefined
    \/ /\ q.route \in {"POST /api/score-image", "POST /api/validate-anatomy"}
       /\ q.body.imageUrl = Undefined

\* C3: on train-lora, generate-json, score-image and validate-anatomy, a
\* request that lacks a required field is answered 400 with an {error} body
\* and leaves every table as it was.
C3_MissingFieldRejected ==
    [][MissingRequired(req') => IsError(resp', 400) /\ tables' = tables]_vars

\* C3 witness: such a request was refused while rows were stored.
C3_Witness ==
    /\ MissingRequired(req)
    /\ resp.status = 400
    /\ Len(lora_trainings) + Len(json_configs) + Len(image_scores)
          + Len(anatomy_validations) > 0

\* The answer r to the poll q of a route whose creations returned ids.
PollMatches(q, r, ids) ==
    IF q.jobId \in ids
    THEN r.status = 200 /\ r.body.id = q.jobId
    ELSE IsError(r, 404)

\* C4: a poll that the store answers returns 200 with the job exactly when
\* its id was returned by an earlier successful POST on the same job route,
\* and 404 with an {error} body otherwise; no two successful creation
\* requests return the same id.
C4_PollFindsExactlyCreated ==
    /\ (req.route = "GET /api/train-lora/:jobId" /\ resp.status # 500)
          => PollMatches(req, resp, created["train-lora"])
    /\ (req.route = "GET /api/deploy-remotion/:jobId" /\ resp.status # 500)
          => PollMatches(req, resp, created["deploy-remotion"])
    /\ \A r \in CreationRoutes : Cardinality(created[r]) = nSuccess[r]
    /\ \A r1, r2 \in CreationRoutes :
          r1 # r2 => created[r1] \cap created[r2] = {}

\* The field of the stats response that counts a creation route's table.
StatsField(route) ==
    CASE route = "train-lora" -> "loraTrainings"
      [] route = "generate-json" -> "jsonConfigs"
      [] route = "score-image" -> "imageScores"
      [] route = "validate-anatomy" -> "anatomyValidations"
      [] route = "deploy-remotion" -> "remotionDeployments"

\* C5: a GET /api/stats response reports, for each of the five creation
\* routes, a count equal to the number of creation calls on that route that
\* returned success (creation handlers are single steps here, so none is in
\* flight when the response is sent).
C5_StatsCountSuccesses ==
    [][(statsPc = 3 /\ statsPc' = 0 /\ resp'.status = 200)
          => \A r \in CreationRoutes :
                /\ StatsField(r) \in DOMAIN resp'.body
                /\ resp'.body[StatsField(r)] = nSuccess'[r]]_vars

\* The n rows of table inserted last.
LastRows(table, n) ==
    { table[i] : i \in { j \in 1..Len(table) : j > Len(table) - n } }

\* C6: GET /api/scores returns the 10 image-score records created last (all
\* of them when there are fewer) and a total equal to the number of
\* image-score records in the store.
C6_ScoresRecentAndTotal ==
    [][(req'.route = "GET /api/scores" /\ resp'.status = 200)
          => /\ resp'.body.scores = LastRows(image_scores', ScoresLimit)
             /\ resp'.body.total = Len(image_scores')]_vars

\* Every row of old is a row of new, at its place and with its values.
IsPrefix(old, new) ==
    /\ Len(old) <= Len(new)
    /\ \A i \in 1..Len(old) : new[i] = old[i]

GetRoutes == PollRoutes \cup {"GET /api/scores", "GET /api/stats"}

\* C7: records are append-only. No request changes or removes a stored row
\* of any table, a GET request writes nothing, and every poll returns the
\* status label set at creation, also when the progress it returns is 100.
C7_AppendOnly ==
    [][/\ IsPrefix(lora_trainings, lora_trainings')
       /\ IsPrefix(json_configs, json_configs')
       /\ IsPrefix(image_scores, image_scores')
       /\ IsPrefix(anatomy_validations, anatomy_validations')
       /\ IsPrefix(remotion_deployments, remotion_deployments')
       /\ (req'.route \in GetRoutes \/ statsPc' # statsPc) => tables' = tables
       /\ IsPoll200(req', resp') =>
              resp'.body.status =
                  IF req'.route = "GET /api/train-lora/:jobId" THEN "training"
                  ELSE "deploying"]_vars

\* C7 witness: with rows stored in another table too, a poll returned
\* progress 100 with the label "training", and the job's row still holds
\* the progress 0 it was inserted with.
C7_Witness ==
    /\ req.route = "GET /api/train-lora/:jobId"
    /\ resp.status = 200
    /\ resp.body.progress = 10000
    /\ resp.body.status = "training"
    /\ Len(json_configs) + Len(image_scores) + Len(anatomy_validations)
          + Len(remotion_deployments) > 0
    /\ \E i \in 1..Len(lora_trainings) :
          lora_trainings[i].id = req.jobId /\ lora_trainings[i].progress = 0

\* The progress a poll at clock reading t returns for the stored job.
ProgressAt(job, t, duration) == Progress(t - NewDate(job.createdAt, tz), duration)

\* Clock readings around the job's createdAt and the end of its duration.
SampleTimes(job, duration) ==
    LET c == NewDate(job.createdAt, tz)
    IN  {c - 1000, c, c + 1, c + 6, c + duration \div 2, c + duration - 1,
         c + duration, c + duration + 1, c + 10 * duration}

Columns(row) ==
    [character |-> row.character, environment |-> row.environment,
     lighting |-> row.lighting, camera |-> row.camera, style |-> row.style,
     negativePrompt |-> row.negativePrompt]

\* C9: a successful POST /api/generate-json replaces each omitted optional
\* field by its default, and every stored json_configs row's configJson,
\* parsed back, equals the row's structured columns and the jsonConfig the
\* response returned.
C9_ConfigJsonMatchesColumns ==
    /\ \A i \in 1..Len(json_configs) :
          JSONparse(json_configs[i].configJson) = Columns(json_configs[i])
    /\ (req.route = "POST /api/generate-json" /\ resp.status = 200) =>
          /\ req.body.camera = Undefined
                => resp.body.jsonConfig.camera = JsStr("Standard")
          /\ req.body.style = Undefined
                => resp.body.jsonConfig.style = JsStr("Cinematic")
          /\ req.body.negativePrompt = Undefined
                => resp.body.jsonConfig.negativePrompt
                      = JsStr("deformed, blurry, low quality")
          /\ \A i \in 1..Len(json_configs) :
                json_configs[i].id = resp.body.id
                  => JSONparse(json_configs[i].configJson) = resp.body.jsonConfig

\* C10: every validation stored has handsScore in 85..95, faceScore in
\* 88..98, bodyScore in 82..92, an overallScore of at least 85 and an empty
\* issue list, and the verdict returned is the excellent one exactly when
\* overallScore >= 90.
C10_AnatomyIssuesEmpty ==
    /\ \A i \in 1..Len(anatomy_validations) :
          LET row == anatomy_validations[i]
          IN  /\ row.handsScore \in 85..95
              /\ row.faceScore \in 88..98
              /\ row.bodyScore \in 82..92
              /\ row.overallScore >= 85
              /\ row.issues = <<>>
    /\ (req.route = "POST /api/validate-anatomy" /\ resp.status = 200) =>
          (resp.body.verdict = "Excellent anatomy!"
              <=> resp.body.overallScore >= 90)

\* C10 witness: a validation was stored with the lowest draws, its
\* overallScore exactly 85.
C10_Witness ==
    \E i \in 1..Len(anatomy_validations) :
        /\ anatomy_validations[i].handsScore = 85
        /\ anatomy_validations[i].faceScore = 88
        /\ anatomy_validations[i].bodyScore = 82
        /\ anatomy_validations[i].overallScore = 85

====
